---- MODULE Spec2Model ----
(***************************************************************************)
(* Model of sops: the schema subsystem (src/sops/schema.py: compile a raw  *)
(* schema dict to a strict JSON-schema document, validate a value against  *)
(* the raw schema dict) and the thin query layer (src/sops/core.py,        *)
(* src/sops/__init__.py).                                                  *)
(*                                                                         *)
(* Python objects are records tagged by "py":                              *)
(*   None            [py |-> "None"]                                       *)
(*   True / False    [py |-> "bool",  v |-> TRUE]                          *)
(*   1               [py |-> "int",   v |-> 1]                             *)
(*   1.5             [py |-> "float", tenths |-> 15]                       *)
(*   "a"             [py |-> "str",   v |-> "a"]                           *)
(*   b"x"            [py |-> "bytes"]                                      *)
(*   [x, y]          [py |-> "list",  items |-> <<x, y>>]                  *)
(*   {k: x}          [py |-> "dict",  keys |-> <<k>>, vals |-> <<x>>]      *)
(*                   (insertion order kept, as Python dicts keep it)       *)
(*   str, int, ...   [py |-> "type",  name |-> "str"]   (the classes)      *)
(*   list[T]         [py |-> "GenericAlias", args |-> <<T>>]               *)
(*   Literal[a, b]   [py |-> "Literal", args |-> <<a, b>>]                 *)
(*   T | None        [py |-> "Union",   args |-> <<T, NoneType>>]          *)
(* A dict key or path part is [s |-> "a"] (a str) or [i |-> 0] (an int).   *)
(***************************************************************************)
EXTENDS Integers, Sequences, FiniteSets, TLC

VARIABLES
    schema_dict,   \* the raw schema handed to sops.o / make_schema_spec
    spec,          \* outcome of make_schema_spec: a SchemaSpec or the raised error
    value,         \* the value last handed to validate_with_schema_dict
    outcome,       \* outcome of validate_with_schema_dict
    backend,       \* the module attribute sops.backend
    assigned,      \* whether the caller has executed `sops.backend = ...`
    call,          \* the query in progress: its name, arguments, program point
    infer_calls,   \* backend calls made by the query in progress
    raised         \* the error the query in progress ended with, or NoError

vars == <<schema_dict, spec, value, outcome, backend, assigned, call, infer_calls, raised>>

schemaVars == <<schema_dict, spec, value, outcome>>
queryVars == <<backend, assigned, call, infer_calls, raised>>

-----------------------------------------------------------------------------
(* Python objects *)

None == [py |-> "None"]
PyBool(b) == [py |-> "bool", v |-> b]
PyInt(n) == [py |-> "int", v |-> n]
PyFloat(t) == [py |-> "float", tenths |-> t]
PyStr(s) == [py |-> "str", v |-> s]
PyBytes == [py |-> "bytes"]
PyList(items) == [py |-> "list", items |-> items]
PyDict(keys, vals) == [py |-> "dict", keys |-> keys, vals |-> vals]

K(s) == [s |-> s]
IntKey(i) == [i |-> i]

str == [py |-> "type", name |-> "str"]
int == [py |-> "type", name |-> "int"]
float == [py |-> "type", name |-> "float"]
bool == [py |-> "type", name |-> "bool"]
bytes == [py |-> "type", name |-> "bytes"]
_NONE_TYPE == [py |-> "type", name |-> "NoneType"]
Literal(args) == [py |-> "Literal", args |-> args]
Union(args) == [py |-> "Union", args |-> args]
GenericList(args) == [py |-> "GenericAlias", args |-> args]
Optional(t) == Union(<<t, _NONE_TYPE>>)

\* isinstance(x, dict), isinstance(x, list), isinstance(key, str), ...
IsDict(x) == x.py = "dict"
IsList(x) == x.py = "list"
IsStrKey(k) == "s" \in DOMAIN k
\* isinstance(x, str)
IsStrValue(x) == x.py = "str"
\* isinstance(x, bool)
IsBoolValue(x) == x.py = "bool"
\* isinstance(x, int): bool is a subclass of int
IsIntValue(x) == x.py \in {"int", "bool"}
\* isinstance(x, (int, float))
IsIntOrFloatValue(x) == x.py \in {"int", "bool", "float"}

\* type(value).__name__
TypeName(x) == IF x.py = "None" THEN "NoneType" ELSE x.py

\* typing.get_origin
get_origin(schema) ==
    CASE schema.py = "GenericAlias" -> "list"
      [] schema.py = "Literal" -> "Literal"
      [] schema.py = "Union" -> "Union"
      [] OTHER -> "None"

\* typing.get_args
get_args(schema) ==
    IF schema.py \in {"GenericAlias", "Literal", "Union"} THEN schema.args ELSE <<>>

\* The numeric value, in tenths, of an int, bool or float.
NumTenths(x) ==
    CASE x.py = "int" -> 10 * x.v
      [] x.py = "bool" -> (IF x.v THEN 10 ELSE 0)
      [] x.py = "float" -> x.tenths

\* Python's ==: numbers (bool included) compare by value, the rest by kind and value.
PyEq(x, y) ==
    IF IsIntOrFloatValue(x) /\ IsIntOrFloatValue(y)
    THEN NumTenths(x) = NumTenths(y)
    ELSE x = y

\* Python's `x in tuple`
PyIn(x, tuple) == \E i \in 1..Len(tuple) : PyEq(x, tuple[i])

\* The index of key k in a dict, 0 when absent.
KeyIndex(d, k) ==
    IF \E i \in 1..Len(d.keys) : d.keys[i] = k
    THEN CHOOSE i \in 1..Len(d.keys) : d.keys[i] = k
    ELSE 0

-----------------------------------------------------------------------------
(* Outcomes of a call: a returned value or a raised exception *)

Return(v) == [raised |-> FALSE, value |-> v]
Raise(exc, msg, at, detail) ==
    [raised |-> TRUE, exc |-> exc, msg |-> msg, at |-> at, detail |-> detail]
SchemaError(msg, at) == Raise("SchemaError", msg, at, <<>>)
ValidationError(msg, at, detail) == Raise("ValidationError", msg, at, detail)

RECURSIVE _path_str_from(_, _)
_path_str_from(path, rendered) ==
    IF path = <<>> THEN rendered
    ELSE LET part == Head(path)
         IN _path_str_from(Tail(path),
                IF ~IsStrKey(part) THEN rendered \o "[" \o ToString(part.i) \o "]"
                ELSE IF part.s = "[]" THEN rendered \o "[]"
                ELSE rendered \o "." \o part.s)

_path_str(path) == _path_str_from(path, "$")

-----------------------------------------------------------------------------
(* src/sops/schema.py: compilation *)

RECURSIVE _ensure_string_keys_from(_, _, _)
\* The loop of _ensure_string_keys from item i on.
_ensure_string_keys_from(d, path, i) ==
    IF i > Len(d.keys) THEN Return(None)
    ELSE IF ~IsStrKey(d.keys[i])
    THEN SchemaError("Object schema keys must be strings", _path_str(path))
    ELSE LET sub == IF IsDict(d.vals[i])
                    THEN _ensure_string_keys_from(d.vals[i], Append(path, d.keys[i]), 1)
                    ELSE Return(None)
         IN IF sub.raised THEN sub ELSE _ensure_string_keys_from(d, path, i + 1)

_ensure_string_keys(d, path) == _ensure_string_keys_from(d, path, 1)

_unwrap_optional(schema, path) ==
    IF get_origin(schema) # "Union" THEN Return(<<schema, FALSE>>)
    ELSE LET args == get_args(schema)
             non_none == SelectSeq(args, LAMBDA arg : arg # _NONE_TYPE)
             has_none == Len(non_none) # Len(args)
         IN IF ~has_none THEN Return(<<schema, FALSE>>)
            ELSE IF Len(non_none) # 1
            THEN SchemaError("Only Optional[T] unions are supported", _path_str(path))
            ELSE Return(<<non_none[1], TRUE>>)

\* The Literal branch of _compile_any_schema.
_compile_literal(schema, path) ==
    LET values == get_args(schema)
    IN IF values = <<>>
       THEN SchemaError("Literal must include at least one value", _path_str(path))
       ELSE IF \E i \in 1..Len(values) :
                    values[i].py \notin {"None", "str", "int", "float", "bool"}
       THEN SchemaError("Unsupported Literal value", _path_str(path))
       ELSE Return([enum |-> values])

\* ObjectDocument with a plausible slip: an Optional field (compiled to anyOf) is left
\* out of "required".
ObjectDocument_optional_not_required(properties, required) ==
    LET req == SelectSeq(required,
                   LAMBDA k : "anyOf" \notin DOMAIN properties.vals[KeyIndex(properties, k)])
    IN IF req # <<>>
       THEN [type |-> "object", properties |-> properties,
             additionalProperties |-> FALSE, required |-> req]
       ELSE [type |-> "object", properties |-> properties,
             additionalProperties |-> FALSE]

\* The document _compile_object_schema builds from its properties and required list.
ObjectDocument(properties, required) ==
    IF required # <<>>
    THEN [type |-> "object", properties |-> properties,
          additionalProperties |-> FALSE, required |-> required]
    ELSE [type |-> "object", properties |-> properties,
          additionalProperties |-> FALSE]

RECURSIVE _compile_object_from(_, _, _, _, _), _compile_any_schema(_, _)

_compile_field_schema(schema, path) ==
    LET u == _unwrap_optional(schema, path)
    IN IF u.raised THEN u
       ELSE LET compiled == _compile_any_schema(u.value[1], path)
            IN IF compiled.raised THEN compiled
               ELSE IF u.value[2]
               THEN Return(<<[anyOf |-> <<compiled.value, [type |-> "null"]>>], TRUE>>)
               ELSE Return(<<compiled.value, FALSE>>)

\* The loop of _compile_object_schema from item i on, then its result.
_compile_object_from(d, path, i, properties, required) ==
    IF i > Len(d.keys)
    THEN Return(ObjectDocument(PyDict(required, properties), required))
    ELSE LET f == _compile_field_schema(d.vals[i], Append(path, d.keys[i]))
         IN IF f.raised THEN f
            ELSE _compile_object_from(d, path, i + 1,
                     Append(properties, f.value[1]), Append(required, d.keys[i]))

_compile_object_schema(d, path) == _compile_object_from(d, path, 1, <<>>, <<>>)

_compile_any_schema(schema, path) ==
    IF IsDict(schema)
    THEN LET e == _ensure_string_keys(schema, path)
         IN IF e.raised THEN e ELSE _compile_object_schema(schema, path)
    ELSE IF IsList(schema)
    THEN IF Len(schema.items) # 1
         THEN SchemaError("List schema shorthand must contain exactly one item type",
                          _path_str(path))
         ELSE LET items == _compile_any_schema(schema.items[1], Append(path, K("[]")))
              IN IF items.raised THEN items
                 ELSE Return([type |-> "array", items |-> items.value])
    ELSE IF get_origin(schema) = "list"
    THEN IF Len(get_args(schema)) # 1
         THEN SchemaError("list[T] requires exactly one item type", _path_str(path))
         ELSE LET items == _compile_any_schema(get_args(schema)[1], Append(path, K("[]")))
              IN IF items.raised THEN items
                 ELSE Return([type |-> "array", items |-> items.value])
    ELSE IF get_origin(schema) = "Literal" THEN _compile_literal(schema, path)
    ELSE IF schema = str THEN Return([type |-> "string"])
    ELSE IF schema = int THEN Return([type |-> "integer"])
    ELSE IF schema = float THEN Return([type |-> "number"])
    ELSE IF schema = bool THEN Return([type |-> "boolean"])
    ELSE IF get_origin(schema) = "Union"
    THEN SchemaError("Only Optional[T] unions are supported", _path_str(path))
    ELSE SchemaError("Unsupported schema type", _path_str(path))

\* class SchemaSpec
SchemaSpec(sd, json_schema) ==
    [py |-> "SchemaSpec", schema_dict |-> sd, json_schema |-> json_schema,
     name |-> "sops_output"]

make_schema_spec(sd) ==
    IF ~IsDict(sd)
    THEN SchemaError("sops.o(...) expects a Python dict schema at the root", "")
    ELSE LET e == _ensure_string_keys(sd, <<>>)
         IN IF e.raised THEN e
            ELSE LET compiled == _compile_object_schema(sd, <<>>)
                 IN IF compiled.raised THEN compiled
                    ELSE Return(SchemaSpec(sd, compiled.value))

-----------------------------------------------------------------------------
(* src/sops/schema.py: validation *)

\* The strings the model uses as dict keys, in Python's string order.
StrOrder == <<"a", "b", "items", "result", "w", "z">>

\* sorted(keys) for a set of str keys
sorted(keys) == SelectSeq(StrOrder, LAMBDA s : K(s) \in keys)

SeqToSet(s) == {s[i] : i \in 1..Len(s)}

RECURSIVE _validate_fields_from(_, _, _, _), _validate_any(_, _, _),
          _validate_items_from(_, _, _, _), _validate_fields_from_last_error(_, _, _, _)

\* The body of the loop over the declared fields of _validate_object, for item i:
\* Return(None) where the code continues with the next field.
_validate_field(v, d, path, i) ==
    LET key == d.keys[i]
        field_schema == d.vals[i]
        u == _unwrap_optional(field_schema, Append(path, key))
        at == KeyIndex(v, key)
    IN IF u.raised THEN u
       ELSE IF at = 0
       THEN IF u.value[2] THEN Return(None)
            ELSE ValidationError("Missing required field", _path_str(path), <<key>>)
       ELSE IF v.vals[at] = None
       THEN IF u.value[2] THEN Return(None)
            ELSE ValidationError("Field cannot be null",
                                 _path_str(Append(path, key)), <<key>>)
       ELSE _validate_any(v.vals[at],
                          IF u.value[2] THEN u.value[1] ELSE field_schema,
                          Append(path, key))

\* _validate_fields_from with a plausible slip: the loop goes on after a violation
\* and the last one found is the one raised.
_validate_fields_from_last_error(v, d, path, i) ==
    IF i > Len(d.keys) THEN Return(None)
    ELSE LET rest == _validate_fields_from_last_error(v, d, path, i + 1)
         IN IF rest.raised THEN rest ELSE _validate_field(v, d, path, i)

\* The loop over the declared fields of _validate_object, from item i on.
_validate_fields_from(v, d, path, i) ==
    IF i > Len(d.keys) THEN Return(None)
    ELSE LET r == _validate_field(v, d, path, i)
         IN IF r.raised THEN r ELSE _validate_fields_from(v, d, path, i + 1)

\* _validate_object with a plausible slip: the declared fields are checked before
\* the undeclared keys.
_validate_object_fields_first(v, d, path) ==
    IF ~IsDict(v)
    THEN ValidationError("Expected object", _path_str(path), <<TypeName(v)>>)
    ELSE IF ~IsDict(d)
    THEN Raise("AttributeError", "object has no attribute 'keys'", _path_str(path), <<>>)
    ELSE LET extra_keys == SeqToSet(v.keys) \ SeqToSet(d.keys)
             fields == _validate_fields_from(v, d, path, 1)
         IN IF fields.raised THEN fields
            ELSE IF extra_keys # {}
            THEN ValidationError("Unexpected field(s)", _path_str(path), sorted(extra_keys))
            ELSE Return(None)

_validate_object(v, d, path) ==
    IF ~IsDict(v)
    THEN ValidationError("Expected object", _path_str(path), <<TypeName(v)>>)
    ELSE IF ~IsDict(d)
    THEN Raise("AttributeError", "object has no attribute 'keys'", _path_str(path), <<>>)
    ELSE LET extra_keys == SeqToSet(v.keys) \ SeqToSet(d.keys)
         IN IF extra_keys # {}
            THEN ValidationError("Unexpected field(s)", _path_str(path), sorted(extra_keys))
            ELSE _validate_fields_from(v, d, path, 1)

\* for index, item in enumerate(value): _validate_any(item, element, (*path, index))
_validate_items_from(items, element, path, index) ==
    IF index >= Len(items) THEN Return(None)
    ELSE LET r == _validate_any(items[index + 1], element, Append(path, IntKey(index)))
         IN IF r.raised THEN r ELSE _validate_items_from(items, element, path, index + 1)

\* NotInteger with a plausible slip: the isinstance(value, bool) exclusion forgotten.
NotInteger_bool_passes(v) == ~IsIntValue(v)

\* not isinstance(value, int) or isinstance(value, bool)
NotInteger(v) == ~IsIntValue(v) \/ IsBoolValue(v)

\* not isinstance(value, (int, float)) or isinstance(value, bool)
NotNumber(v) == ~IsIntOrFloatValue(v) \/ IsBoolValue(v)

\* _validate_any below the Optional branch: list[T], Literal, the primitive types.
_validate_plain(v, schema, path) ==
    IF get_origin(schema) = "list"
    THEN IF Len(get_args(schema)) # 1
         THEN SchemaError("list[T] requires exactly one item type", _path_str(path))
         ELSE IF ~IsList(v)
         THEN ValidationError("Expected list", _path_str(path), <<TypeName(v)>>)
         ELSE _validate_items_from(v.items, get_args(schema)[1], path, 0)
    ELSE IF get_origin(schema) = "Literal"
    THEN IF ~PyIn(v, get_args(schema))
         THEN ValidationError("Value is not in Literal", _path_str(path), <<v>>)
         ELSE Return(None)
    ELSE IF schema = str
    THEN IF ~IsStrValue(v)
         THEN ValidationError("Expected string", _path_str(path), <<TypeName(v)>>)
         ELSE Return(None)
    ELSE IF schema = bool
    THEN IF ~IsBoolValue(v)
         THEN ValidationError("Expected boolean", _path_str(path), <<TypeName(v)>>)
         ELSE Return(None)
    ELSE IF schema = int
    THEN IF NotInteger(v)
         THEN ValidationError("Expected integer", _path_str(path), <<TypeName(v)>>)
         ELSE Return(None)
    ELSE IF schema = float
    THEN IF NotNumber(v)
         THEN ValidationError("Expected number", _path_str(path), <<TypeName(v)>>)
         ELSE Return(None)
    ELSE SchemaError("Unsupported schema type", _path_str(path))

_validate_any(v, schema, path) ==
    IF IsDict(schema) THEN _validate_object(v, schema, path)
    ELSE IF IsList(schema)
    THEN IF Len(schema.items) # 1
         THEN SchemaError("List schema shorthand must contain exactly one item type",
                          _path_str(path))
         ELSE IF ~IsList(v)
         THEN ValidationError("Expected list", _path_str(path), <<TypeName(v)>>)
         ELSE _validate_items_from(v.items, schema.items[1], path, 0)
    ELSE LET u == _unwrap_optional(schema, path)
         IN IF u.raised THEN u
            ELSE IF u.value[2]
            THEN IF v = None THEN Return(None)
                 ELSE _validate_any(v, u.value[1], path)
            ELSE _validate_plain(v, schema, path)

validate_with_schema_dict(v, sd) == _validate_object(v, sd, <<>>)

-----------------------------------------------------------------------------
(* Inputs: the raw schemas and the values the checks range over *)

\* Longest list among the values handed to the validator.
MaxListLen == 2

SeqsUpTo(S, n) == UNION {[1..k -> S] : k \in 0..n}

Prims == {str, int, float, bool}

Literals ==
    { Literal(<<>>), Literal(<<PyStr("a")>>), Literal(<<PyInt(1)>>),
      Literal(<<None>>), Literal(<<PyStr("a"), PyInt(1)>>),
      Literal(<<PyInt(1), None>>), Literal(<<PyBytes>>) }

\* Schemas without a schema inside; bytes stands for every unsupported type.
Leaves == Prims \cup Literals \cup {bytes}

EmptyDict == PyDict(<<>>, <<>>)

\* Schemas of the fields of a nested object.
InnerNodes ==
    Prims \cup { Literal(<<PyInt(1)>>), Literal(<<>>), Optional(str), Optional(int),
                 PyList(<<int>>), PyList(<<Optional(str)>>), EmptyDict,
                 PyDict(<<K("b")>>, <<int>>), PyDict(<<IntKey(1)>>, <<str>>) }

NestedDicts ==
    { PyDict(<<K("a")>>, <<t>>) : t \in InnerNodes }
    \cup { EmptyDict, PyDict(<<K("a"), K("b")>>, <<str, Optional(int)>>),
           PyDict(<<K("b"), K("a")>>, <<int, bool>>) }

\* Element schemas of a list.
Elements ==
    Leaves \cup { Optional(str), Optional(int), Optional(Literal(<<PyInt(1)>>)),
                  Union(<<int, str>>), EmptyDict, PyList(<<int>>),
                  PyDict(<<K("a")>>, <<str>>), PyDict(<<K("a")>>, <<Optional(int)>>),
                  PyDict(<<IntKey(1)>>, <<str>>) }

Lists ==
    { PyList(<<t>>) : t \in Elements } \cup { GenericList(<<t>>) : t \in Elements }
    \cup { PyList(<<>>), PyList(<<str, int>>), GenericList(<<int, str>>) }

Unions ==
    { Optional(t) : t \in Leaves \cup {GenericList(<<str>>)} }
    \cup { Union(<<int, str>>), Union(<<int, str, _NONE_TYPE>>) }

\* Every schema tried as the only field of the root object.
FieldNodes == Leaves \cup Unions \cup Lists \cup NestedDicts

\* The schemas tried side by side as two fields of the root object.
PairNodes ==
    { str, int, bool, bytes, Literal(<<PyInt(1)>>), Optional(str), Union(<<int, str>>),
      PyList(<<int>>), PyList(<<str, int>>), PyDict(<<K("a")>>, <<str>>),
      PyList(<<PyDict(<<IntKey(1)>>, <<str>>)>>),
      PyDict(<<K("a")>>, <<PyDict(<<IntKey(1)>>, <<str>>)>>) }

Schemas ==
    { EmptyDict, PyList(<<str>>), PyDict(<<IntKey(1)>>, <<str>>) }
    \cup { PyDict(<<K("a")>>, <<t>>) : t \in FieldNodes }
    \cup { PyDict(<<K("a"), K("b")>>, <<t, u>>) : t \in PairNodes, u \in PairNodes }
    \cup { PyDict(<<K("b"), K("a")>>, <<t, u>>) : t \in PairNodes, u \in PairNodes }
    \cup { PyDict(<<K("a"), IntKey(1)>>, <<t, str>>) : t \in PairNodes }

ScalarValues ==
    { None, PyBool(TRUE), PyBool(FALSE), PyInt(0), PyInt(1), PyFloat(10), PyFloat(15),
      PyStr("a") }

ItemValues == { None, PyBool(TRUE), PyInt(1), PyFloat(10), PyStr("a") }

DeepValues == { None, PyInt(1), PyStr("a") }

\* Undeclared keys put in front of a dict value; "z" before "w" is unsorted.
ExtraKeys(d) == IF d >= 2 THEN {<<>>, <<K("z")>>, <<K("z"), K("w")>>} ELSE {<<>>, <<K("z")>>}

RECURSIVE Candidates(_, _), DictBodies(_, _, _)

\* The <<keys, vals>> a dict value may hold for the fields of schema d from item i
\* on: each declared str key absent, or present with a candidate of its schema.
DictBodies(d, depth, i) ==
    IF i > Len(d.keys) THEN {<< <<>>, <<>> >>}
    ELSE LET rest == DictBodies(d, depth, i + 1)
             key == d.keys[i]
         IN rest \cup
            ( IF IsStrKey(key)
              THEN { << <<key>> \o r[1], <<c>> \o r[2] >> :
                         c \in Candidates(d.vals[i], depth - 1), r \in rest }
              ELSE {} )

\* The values tried against a schema: values of its shape and values off it, with
\* fewer alternatives the deeper the position (depth counts down).
Candidates(schema, depth) ==
    IF IsDict(schema)
    THEN { None, PyInt(1) } \cup
         { PyDict(x \o b[1], [i \in 1..Len(x) |-> PyInt(1)] \o b[2]) :
               x \in ExtraKeys(depth), b \in DictBodies(schema, depth, 1) }
    ELSE IF IsList(schema) \/ get_origin(schema) = "list"
    THEN LET args == IF IsList(schema) THEN schema.items ELSE get_args(schema)
             items == IF Len(args) = 1 THEN Candidates(args[1], depth - 1) ELSE DeepValues
         IN { None, PyInt(1) } \cup
            { PyList(s) : s \in SeqsUpTo(items, IF depth >= 2 THEN MaxListLen ELSE 1) }
    ELSE IF get_origin(schema) = "Union" /\ Len(get_args(schema)) = 2
            /\ get_args(schema)[2] = _NONE_TYPE /\ get_origin(get_args(schema)[1]) = "list"
    THEN Candidates(get_args(schema)[1], depth)
    ELSE IF depth >= 2 THEN ScalarValues \cup {PyList(<<>>)}
    ELSE IF depth = 1 THEN ItemValues
    ELSE DeepValues

\* The values tried against a root schema.
Values(sd) ==
    IF IsDict(sd)
    THEN { PyList(<<>>) } \cup (Candidates(sd, IF Len(sd.keys) <= 1 THEN 3 ELSE 2) \ {PyInt(1)})
    ELSE { None, EmptyDict }

-----------------------------------------------------------------------------
(* The schema subsystem as a state machine *)

NotCalled == [raised |-> FALSE, value |-> [py |-> "not called"]]
NoError == [raised |-> FALSE]

\* sops.backend after `import sops`: src/sops/__init__.py builds an OpenAI backend.
NoBackend == [kind |-> "None"]
OpenAIBackend == [kind |-> "OpenAIBackend"]
CustomBackend == [kind |-> "Backend"]
DefaultBackend == OpenAIBackend

\* No query has been made yet.
Idle == [name |-> "idle", pc |-> "done", method |-> "none", returned |-> FALSE]

Init ==
    /\ schema_dict \in Schemas
    /\ spec = NotCalled
    /\ value = None
    /\ outcome = NotCalled
    /\ backend = DefaultBackend
    /\ assigned = FALSE
    /\ call = Idle
    /\ infer_calls = 0
    /\ raised = NoError

\* sops.o(schema_dict) / make_schema_spec(schema_dict)
MakeSchemaSpec ==
    /\ spec = NotCalled
    /\ spec' = make_schema_spec(schema_dict)
    /\ UNCHANGED <<schema_dict, value, outcome>>
    /\ UNCHANGED queryVars

\* validate_with_schema_dict(v, schema_dict), on the raw dict sops.o was given
Validate ==
    /\ spec # NotCalled
    /\ outcome = NotCalled
    /\ \E v \in Values(schema_dict) :
           /\ value' = v
           /\ outcome' = validate_with_schema_dict(v, schema_dict)
    /\ UNCHANGED <<schema_dict, spec>>
    /\ UNCHANGED queryVars

Next == MakeSchemaSpec \/ Validate

Spec == Init /\ [][Next]_vars

-----------------------------------------------------------------------------
(* The query layer: src/sops/core.py behind src/sops/__init__.py *)

Done(name, method, returned) ==
    [name |-> name, pc |-> "done", method |-> method, returned |-> returned]
InBackend(name, method) ==
    [name |-> name, pc |-> "in_backend", method |-> method, returned |-> FALSE]

\* f(prompt, schema, backend=backend) up to its backend call: the error it raises
\* before one, or Return(method) when it goes on to call backend.<method>.
f_enter(prompt, schema, b) ==
    IF ~IsStrValue(prompt)
    THEN Raise("TypeError", "sops.f(prompt, ...) expects prompt to be a string", "", <<>>)
    ELSE IF IsDict(schema)
    THEN SchemaError("Pass schema as sops.o({...}), not a raw dict", "")
    ELSE IF schema # None /\ schema.py # "SchemaSpec"
    THEN SchemaError("schema must be None or a SchemaSpec created by sops.o({...})", "")
    ELSE IF b = NoBackend
    THEN Raise("ConfigurationError", "sops.backend is not set", "", <<>>)
    ELSE IF schema = None THEN Return("infer_text")
    ELSE Return("infer_json")

\* The checks of c() on what f() returned.
c_shape(result) ==
    IF ~IsDict(result) \/ KeyIndex(result, K("result")) = 0
    THEN ValidationError("Expected {'result': bool} output shape from sops.c()", "", <<>>)
    ELSE IF ~IsBoolValue(result.vals[KeyIndex(result, K("result"))])
    THEN ValidationError("Expected boolean value for key 'result' in sops.c()", "", <<>>)
    ELSE Return(result.vals[KeyIndex(result, K("result"))])

\* The checks of a() on what f() returned.
a_shape(result) ==
    IF ~IsDict(result) \/ KeyIndex(result, K("items")) = 0
    THEN ValidationError("Expected {'items': list} output shape from sops.a()", "", <<>>)
    ELSE IF ~IsList(result.vals[KeyIndex(result, K("items"))])
    THEN ValidationError("Expected list value for key 'items' in sops.a()", "", <<>>)
    ELSE Return(result.vals[KeyIndex(result, K("items"))])

\* The prompts tried: a str and something else.
Prompts == { PyStr("p"), PyInt(1) }

\* The raw schemas a caller hands to sops.o before sops.f.
QuerySchemas ==
    { EmptyDict, PyDict(<<K("a")>>, <<int>>), PyDict(<<K("a")>>, <<PyList(<<str>>)>>),
      PyDict(<<K("a")>>, <<Optional(str)>>), PyDict(<<K("a")>>, <<PyList(<<str, int>>)>>),
      PyDict(<<K("a")>>, <<Union(<<int, str>>)>>), PyDict(<<IntKey(1)>>, <<str>>) }

\* The schema_dict of SchemaSpec objects built by hand, not by sops.o.
HandSchemas ==
    { PyDict(<<K("a")>>, <<int>>), PyDict(<<K("a")>>, <<PyList(<<str, int>>)>>),
      PyDict(<<K("a")>>, <<bytes>>), PyDict(<<K("a")>>, <<PyList(<<Optional(str)>>)>>) }

\* The element schemas handed to sops.a.
ElementArgs == { int, str, bytes, Optional(str), PyDict(<<K("a")>>, <<str>>), PyList(<<>>) }

\* What a caller passes as the schema argument of sops.f that is not built by sops.o.
DirectSchemaArgs ==
    { None, PyStr("a"), PyDict(<<K("a")>>, <<int>>) }
    \cup { SchemaSpec(sd, [type |-> "object"]) : sd \in HandSchemas }

\* What infer_json may return for a schema: anything; here the values around it.
JsonValues(sd) == Values(sd) \cup { PyStr("a") }

\* The start of a query: everything the previous one left is reset.
Begin(name, sd, sp, entered) ==
    /\ call.pc = "done"
    /\ schema_dict' = sd
    /\ spec' = sp
    /\ value' = None
    /\ outcome' = NotCalled
    /\ IF entered.raised
       THEN raised' = entered /\ infer_calls' = 0 /\ call' = Done(name, "none", FALSE)
       ELSE raised' = NoError /\ infer_calls' = 1 /\ call' = InBackend(name, entered.value)
    /\ UNCHANGED <<backend, assigned>>

\* The caller executes `sops.backend = ...`.
AssignBackend ==
    /\ call.pc = "done"
    /\ \E b \in {NoBackend, OpenAIBackend, CustomBackend} : backend' = b
    /\ assigned' = TRUE
    /\ UNCHANGED <<call, infer_calls, raised>>
    /\ UNCHANGED schemaVars

\* sops.f(prompt, schema) with a schema argument not built by sops.o
CallF ==
    \E prompt \in Prompts, schema \in DirectSchemaArgs :
        Begin("f", IF schema.py = "SchemaSpec" THEN schema.schema_dict ELSE EmptyDict,
              IF schema.py = "SchemaSpec" THEN Return(schema) ELSE NotCalled,
              f_enter(prompt, schema, backend))

\* sops.f(prompt, sops.o(sd)): sops.o runs first and may raise.
CallFWithO ==
    \E prompt \in Prompts, sd \in QuerySchemas :
        LET made == make_schema_spec(sd)
        IN Begin("f", sd, made,
                 IF made.raised THEN made ELSE f_enter(prompt, made.value, backend))

\* sops.c(prompt)
CallC ==
    \E prompt \in Prompts :
        LET sd == PyDict(<<K("result")>>, <<bool>>)
            made == make_schema_spec(sd)
        IN Begin("c", sd, made,
                 IF made.raised THEN made ELSE f_enter(prompt, made.value, backend))

\* sops.a(prompt, of)
CallA ==
    \E prompt \in Prompts, of \in ElementArgs :
        LET sd == PyDict(<<K("items")>>, <<PyList(<<of>>)>>)
            made == make_schema_spec(sd)
        IN Begin("a", sd, made,
                 IF made.raised THEN made ELSE f_enter(prompt, made.value, backend))

\* backend.infer_text / backend.infer_json raises BackendError or DecodeError.
BackendRaises ==
    /\ call.pc = "in_backend"
    /\ \E exc \in {"BackendError", "DecodeError"} :
           raised' = Raise(exc, "backend call failed", "", <<>>)
    /\ call' = Done(call.name, call.method, FALSE)
    /\ UNCHANGED <<backend, assigned, infer_calls>>
    /\ UNCHANGED schemaVars

\* backend.infer_text returns a str, which f returns.
InferTextReturns ==
    /\ call.pc = "in_backend" /\ call.method = "infer_text"
    /\ value' = PyStr("a")
    /\ raised' = NoError
    /\ call' = Done(call.name, call.method, TRUE)
    /\ UNCHANGED <<backend, assigned, infer_calls, schema_dict, spec, outcome>>

\* backend.infer_json returns a value: f validates it against schema.schema_dict
\* and returns it, then c or a checks its shape.
InferJsonReturns ==
    /\ call.pc = "in_backend" /\ call.method = "infer_json"
    /\ \E v \in JsonValues(spec.value.schema_dict) :
           LET validated == validate_with_schema_dict(v, spec.value.schema_dict)
               shaped == IF call.name = "c" THEN c_shape(v)
                         ELSE IF call.name = "a" THEN a_shape(v)
                         ELSE Return(v)
           IN /\ value' = v
              /\ outcome' = validated
              /\ raised' = IF validated.raised THEN validated
                           ELSE IF shaped.raised THEN shaped
                           ELSE NoError
    /\ call' = Done(call.name, call.method, TRUE)
    /\ UNCHANGED <<backend, assigned, infer_calls, schema_dict, spec>>

QueryInit ==
    /\ schema_dict = EmptyDict
    /\ spec = NotCalled
    /\ value = None
    /\ outcome = NotCalled
    /\ backend = DefaultBackend
    /\ assigned = FALSE
    /\ call = Idle
    /\ infer_calls = 0
    /\ raised = NoError

QueryNext ==
    \/ AssignBackend
    \/ CallF
    \/ CallFWithO
    \/ CallC
    \/ CallA
    \/ BackendRaises
    \/ InferTextReturns
    \/ InferJsonReturns

QuerySpec == QueryInit /\ [][QueryNext]_vars

\* C6: the backend slot starts unset: no infer_text or infer_json call happens
\* unless the caller has assigned sops.backend earlier in the sequence, and a query
\* made while the slot is unset raises ConfigurationError with no backend call.
C6_NoBackendCallUnlessAssigned ==
    /\ (call.pc = "in_backend" \/ infer_calls > 0) => assigned
    /\ (raised.raised /\ raised.exc = "ConfigurationError") => infer_calls = 0

\* C7: in every execution of f, c or a, a SchemaError is raised only while no backend
\* call has been made in that execution, and a ValidationError only after an
\* infer_json call of that execution has returned.
C7_ErrorOrdering ==
    /\ (raised.raised /\ raised.exc = "SchemaError") => infer_calls = 0
    /\ (raised.raised /\ raised.exc = "ValidationError")
       => (call.method = "infer_json" /\ call.returned)

-----------------------------------------------------------------------------
(* Properties of the compiler *)

Compiled == spec # NotCalled /\ ~spec.raised
Rejected == spec # NotCalled /\ spec.raised
Validated == outcome # NotCalled

IsOptional(schema) ==
    /\ get_origin(schema) = "Union"
    /\ Len(get_args(schema)) = 2
    /\ \E i \in 1..2 : get_args(schema)[i] = _NONE_TYPE

\* The non-null alternative of T | None.
Inner(schema) ==
    IF get_args(schema)[1] = _NONE_TYPE THEN get_args(schema)[2] ELSE get_args(schema)[1]

IsListSchema(schema) ==
    /\ IsList(schema) \/ get_origin(schema) = "list"
    /\ Len(IF IsList(schema) THEN schema.items ELSE get_args(schema)) = 1

Element(schema) == IF IsList(schema) THEN schema.items[1] ELSE get_args(schema)[1]

RECURSIVE ObjectPairs(_, _)
\* Every <<object schema, its compiled document>> of a schema and its document,
\* found by walking both: through fields, list elements and nullable unions.
ObjectPairs(schema, doc) ==
    IF IsDict(schema)
    THEN {<<schema, doc>>} \cup
         UNION { ObjectPairs(schema.vals[i], doc.properties.vals[i]) :
                     i \in 1..Len(schema.keys) }
    ELSE IF IsListSchema(schema) THEN ObjectPairs(Element(schema), doc.items)
    ELSE IF IsOptional(schema) THEN ObjectPairs(Inner(schema), doc.anyOf[1])
    ELSE {}

Closed(doc) == doc.type = "object" /\ doc.additionalProperties = FALSE

RequiresAll(schema, doc) == "required" \in DOMAIN doc /\ doc.required = schema.keys

\* C1 as stated: for every accepted raw spec, every object schema in it (root, nested
\* field, list element; any number of declared fields) compiles to a document with
\* additionalProperties false and a "required" list of all declared field names in
\* declaration order, Optional or not.
C1_AllObjectsHaveRequired ==
    Compiled =>
        \A p \in ObjectPairs(schema_dict, spec.value.json_schema) :
            Closed(p[2]) /\ RequiresAll(p[1], p[2])

\* C1 amended: the same for every object schema that declares at least one field; an
\* object schema that declares none compiles to a closed document with no "required"
\* key at all.
C1_ClosedObjects ==
    Compiled =>
        \A p \in ObjectPairs(schema_dict, spec.value.json_schema) :
            /\ Closed(p[2])
            /\ SeqToSet(p[2].properties.keys) = SeqToSet(p[1].keys)
            /\ IF p[1].keys # <<>> THEN RequiresAll(p[1], p[2])
               ELSE "required" \notin DOMAIN p[2]

\* An accepted spec with an Optional field beside a required one, inside a nested
\* object, has been compiled.
C1_Witness ==
    /\ Compiled
    /\ schema_dict = PyDict(<<K("a")>>,
                            <<PyDict(<<K("a"), K("b")>>, <<str, Optional(int)>>)>>)
    /\ spec.value.json_schema.properties.vals[1].required = <<K("a"), K("b")>>

-----------------------------------------------------------------------------
(* Properties of the validator *)

RECURSIVE Satisfies(_, _)
\* A value built to satisfy a schema, as the round-trip property describes it: an
\* Optional field null or present and well-typed, an enum position holding one of
\* the declared literals, lists and nested objects well-typed all the way down.
Satisfies(v, schema) ==
    IF IsDict(schema)
    THEN /\ IsDict(v)
         /\ SeqToSet(v.keys) = SeqToSet(schema.keys)
         /\ \A i \in 1..Len(schema.keys) :
                LET x == v.vals[KeyIndex(v, schema.keys[i])]
                IN IF IsOptional(schema.vals[i])
                   THEN x = None \/ Satisfies(x, Inner(schema.vals[i]))
                   ELSE Satisfies(x, schema.vals[i])
    ELSE IF IsListSchema(schema)
    THEN IsList(v) /\ \A i \in 1..Len(v.items) : Satisfies(v.items[i], Element(schema))
    ELSE IF get_origin(schema) = "Literal"
    THEN \E i \in 1..Len(get_args(schema)) : v = get_args(schema)[i]
    ELSE IF schema = str THEN v.py = "str"
    ELSE IF schema = int THEN v.py = "int"
    ELSE IF schema = float THEN v.py \in {"int", "float"}
    ELSE IF schema = bool THEN v.py = "bool"
    ELSE FALSE

\* C2: round-trip validity: for every accepted raw spec S and every value V built to
\* satisfy S, validate_with_schema_dict(V, S) returns without raising.
C2_RoundTrip ==
    (Compiled /\ Validated /\ Satisfies(value, schema_dict)) => ~outcome.raised

RECURSIVE LiteralsOf(_)
\* Every Literal of a raw schema, at any position.
LiteralsOf(schema) ==
    IF IsDict(schema) THEN UNION { LiteralsOf(schema.vals[i]) : i \in 1..Len(schema.vals) }
    ELSE IF IsList(schema)
    THEN UNION { LiteralsOf(schema.items[i]) : i \in 1..Len(schema.items) }
    ELSE IF get_origin(schema) \in {"list", "Union"}
    THEN UNION { LiteralsOf(get_args(schema)[i]) : i \in 1..Len(get_args(schema)) }
    ELSE IF get_origin(schema) = "Literal" THEN {schema}
    ELSE {}

SingleKind(values) == \A i, j \in 1..Len(values) : values[i].py = values[j].py

\* C9: make_schema_spec raises SchemaError for every spec holding, at any position,
\* a Literal whose value list is empty or not all of one kind; every Enum of an
\* accepted spec is non-empty and single-kind.
C9_EnumsNonEmptySingleKind ==
    /\ Compiled =>
           \A l \in LiteralsOf(schema_dict) : get_args(l) # <<>> /\ SingleKind(get_args(l))
    /\ ( /\ spec # NotCalled /\ IsDict(schema_dict)
         /\ \E l \in LiteralsOf(schema_dict) :
                get_args(l) = <<>> \/ ~SingleKind(get_args(l)) )
       => (spec.raised /\ spec.exc = "SchemaError")

\* The document an Optional of t compiles to, given t's own document.
NullableOf(doc) == [anyOf |-> <<doc, [type |-> "null"]>>]

\* C10: T | None is accepted as Optional wherever a schema node may appear, as an
\* object field and as the element schema of a list, and compiles to
\* {"anyOf": [compile(T), {"type": "null"}]}: a spec that compiles with T at a
\* position compiles with T | None there.
C10_OptionalAtEveryPosition ==
    spec # NotCalled =>
        \A t \in Leaves :
            LET plain == make_schema_spec(PyDict(<<K("a")>>, <<t>>))
                inList == make_schema_spec(PyDict(<<K("a")>>, <<PyList(<<t>>)>>))
            IN /\ ( /\ schema_dict = PyDict(<<K("a")>>, <<Optional(t)>>)
                    /\ ~plain.raised )
                  => /\ ~spec.raised
                     /\ spec.value.json_schema.properties.vals[1]
                            = NullableOf(plain.value.json_schema.properties.vals[1])
               /\ ( /\ schema_dict \in { PyDict(<<K("a")>>, <<PyList(<<Optional(t)>>)>>),
                                         PyDict(<<K("a")>>, <<GenericList(<<Optional(t)>>)>>) }
                    /\ ~inList.raised )
                  => /\ ~spec.raised
                     /\ spec.value.json_schema.properties.vals[1].items
                            = NullableOf(inList.value.json_schema.properties.vals[1].items)
               /\ ( /\ Rejected /\ Validated
                    /\ schema_dict \in { PyDict(<<K("a")>>, <<PyList(<<Optional(t)>>)>>),
                                         PyDict(<<K("a")>>, <<GenericList(<<Optional(t)>>)>>) }
                    /\ ~inList.raised
                    /\ value = PyDict(<<K("a")>>, <<PyList(<<None>>)>>) )
                  => outcome.raised

RECURSIVE Positions(_, _, _)
\* Every <<value, schema, path>> of a value laid over a schema: the root, each
\* present field of an object (under the inner schema when the field is Optional
\* and not null), each item of a list.
Positions(v, schema, path) ==
    {<<v, schema, path>>} \cup
    ( IF IsDict(schema) /\ IsDict(v)
      THEN UNION { LET at == KeyIndex(v, schema.keys[i])
                       s == schema.vals[i]
                   IN IF at = 0 \/ (IsOptional(s) /\ v.vals[at] = None) THEN {}
                      ELSE Positions(v.vals[at], IF IsOptional(s) THEN Inner(s) ELSE s,
                                     Append(path, schema.keys[i]))
                   : i \in 1..Len(schema.keys) }
      ELSE IF IsListSchema(schema) /\ IsList(v)
      THEN UNION { Positions(v.items[i], Element(schema), Append(path, IntKey(i - 1)))
                   : i \in 1..Len(v.items) }
      ELSE {} )

\* What the validator answers at a position; at the root, what the call answered.
Answer(p) == IF p[3] = <<>> THEN outcome ELSE _validate_any(p[1], p[2], p[3])

\* The object value v cut down to one declared key, and the schema to that field.
OnlyField(d, i) == PyDict(<<d.keys[i]>>, <<d.vals[i]>>)
OnlyKey(v, k) ==
    IF KeyIndex(v, k) = 0 THEN EmptyDict ELSE PyDict(<<k>>, <<v.vals[KeyIndex(v, k)]>>)

\* The violation under declared field i alone, if any.
FieldAnswer(p, i) ==
    _validate_object(OnlyKey(p[1], p[2].keys[i]), OnlyField(p[2], i), p[3])

FailingFields(p) == { i \in 1..Len(p[2].keys) : FieldAnswer(p, i).raised }

ItemAnswer(p, i) == _validate_any(p[1].items[i], Element(p[2]), Append(p[3], IntKey(i - 1)))

FailingItems(p) == { i \in 1..Len(p[1].items) : ItemAnswer(p, i).raised }

Min(S) == CHOOSE x \in S : \A y \in S : x <= y

ObjectPosition(p) ==
    IsDict(p[2]) /\ IsDict(p[1]) /\ SeqToSet(p[1].keys) \subseteq SeqToSet(p[2].keys)

Rank(s) == CHOOSE i \in 1..Len(StrOrder) : StrOrder[i] = s

Ascending(names) == \A i, j \in 1..Len(names) : i < j => Rank(names[i]) < Rank(names[j])

UndeclaredKeys(p) == SeqToSet(p[1].keys) \ SeqToSet(p[2].keys)

\* C4: an object value with at least one undeclared key fails, at any depth, with a
\* ValidationError listing all undeclared keys in sorted order, before any declared
\* field is looked at.
C4_UnknownFieldsRejectedFirst ==
    (Compiled /\ Validated) =>
        \A p \in Positions(value, schema_dict, <<>>) :
            (IsDict(p[2]) /\ IsDict(p[1]) /\ UndeclaredKeys(p) # {}) =>
                LET r == Answer(p)
                IN /\ r.raised /\ r.exc = "ValidationError"
                   /\ r.msg = "Unexpected field(s)"
                   /\ r.at = _path_str(p[3])
                   /\ { K(r.detail[i]) : i \in 1..Len(r.detail) } = UndeclaredKeys(p)
                   /\ Len(r.detail) = Cardinality(UndeclaredKeys(p))
                   /\ Ascending(r.detail)
                   /\ outcome.raised

\* A root value holding "z" then "w", with the declared field missing, was answered
\* with the unexpected fields, sorted.
C4_Witness ==
    /\ Compiled /\ Validated
    /\ schema_dict = PyDict(<<K("a")>>, <<str>>)
    /\ value = PyDict(<<K("z"), K("w")>>, <<PyInt(1), PyInt(1)>>)
    /\ outcome = ValidationError("Unexpected field(s)", "$", <<"w", "z">>)

\* What the Integer, Number and Boolean schemas are to accept.
AcceptsPrimitive(schema, v) ==
    CASE schema = int -> v.py = "int"
      [] schema = float -> v.py \in {"int", "float"}
      [] schema = bool -> v.py = "bool"

\* C5: boolean/numeric separation at every position (object field, list element): a
\* boolean is rejected by int and by float, an integer by bool; int accepts exactly
\* the non-boolean integers, float exactly the non-boolean integers and floats.
C5_BooleanNumericSeparation ==
    (Compiled /\ Validated) =>
        \A p \in Positions(value, schema_dict, <<>>) :
            p[2] \in {int, float, bool} =>
                LET r == _validate_any(p[1], p[2], p[3])
                IN /\ r.raised <=> ~AcceptsPrimitive(p[2], p[1])
                   /\ r.raised => r.exc = "ValidationError"
                   /\ ~AcceptsPrimitive(p[2], p[1])
                      => (outcome.raised /\ outcome.exc = "ValidationError")

\* True was handed to an int field, and to an int list element, and rejected.
C5_Witness ==
    /\ Compiled /\ Validated
    /\ schema_dict = PyDict(<<K("a")>>, <<PyList(<<int>>)>>)
    /\ value = PyDict(<<K("a")>>, <<PyList(<<PyInt(1), PyBool(TRUE)>>)>>)
    /\ outcome = ValidationError("Expected integer", "$.a[1]", <<"bool">>)

\* C8: a value passes a Literal schema, at any position, if and only if it is
\* identical in kind and value to one of the declared literals: no boolean for a
\* declared integer, no float for a declared integer, and every declared literal
\* accepted wherever the enum appears.
C8_EnumExactEquality ==
    (Compiled /\ Validated) =>
        \A p \in Positions(value, schema_dict, <<>>) :
            get_origin(p[2]) = "Literal" =>
                LET declared == \E i \in 1..Len(get_args(p[2])) : p[1] = get_args(p[2])[i]
                IN /\ ~declared => outcome.raised
                   /\ (declared /\ Satisfies(value, schema_dict)) => ~outcome.raised

-----------------------------------------------------------------------------
(* Properties of the key check *)

RECURSIVE HasNonStringKey(_)
\* A raw spec holds a non-string object key at some depth: in the mapping itself, in
\* a nested mapping, in a list element schema, under list[...] or inside a union.
HasNonStringKey(schema) ==
    IF IsDict(schema)
    THEN \/ \E i \in 1..Len(schema.keys) : ~IsStrKey(schema.keys[i])
         \/ \E i \in 1..Len(schema.vals) : HasNonStringKey(schema.vals[i])
    ELSE IF IsList(schema)
    THEN \E i \in 1..Len(schema.items) : HasNonStringKey(schema.items[i])
    ELSE IF get_origin(schema) \in {"list", "Union"}
    THEN \E i \in 1..Len(get_args(schema)) : HasNonStringKey(get_args(schema)[i])
    ELSE FALSE

\* C11: for every raw spec (a dict at the root) that holds a non-string object key at
\* any depth, make_schema_spec raises the SchemaError for the non-string key from the
\* key check that runs before compilation: what make_schema_spec raises is what
\* _ensure_string_keys raises on the root, and no other schema error is reported.
C11_KeyErrorBeforeCompilation ==
    (spec # NotCalled /\ IsDict(schema_dict) /\ HasNonStringKey(schema_dict)) =>
        /\ _ensure_string_keys(schema_dict, <<>>).raised
        /\ spec = _ensure_string_keys(schema_dict, <<>>)
        /\ spec.exc = "SchemaError"
        /\ spec.msg = "Object schema keys must be strings"

-----------------------------------------------------------------------------
(* Agreement of the validator with the compiled document *)

\* Equality of two JSON values as a JSON Schema "enum" compares them: numbers by
\* value, everything else by kind and value; true and false are not numbers.
JsonEq(x, y) ==
    IF x.py \in {"int", "float"} /\ y.py \in {"int", "float"}
    THEN NumTenths(x) = NumTenths(y)
    ELSE x = y

RECURSIVE Conforms(_, _)
\* A JSON value conforms to a compiled document: one alternative of an anyOf, one
\* member of an enum, the named type; for an object every key listed in "required"
\* present, no undeclared key where additionalProperties is false, and every present
\* property conforming; for an array every item conforming.
Conforms(v, doc) ==
    IF "anyOf" \in DOMAIN doc
    THEN \E i \in 1..Len(doc.anyOf) : Conforms(v, doc.anyOf[i])
    ELSE IF "enum" \in DOMAIN doc
    THEN \E i \in 1..Len(doc.enum) : JsonEq(v, doc.enum[i])
    ELSE IF doc.type = "object"
    THEN /\ IsDict(v)
         /\ "required" \in DOMAIN doc =>
                \A i \in 1..Len(doc.required) : KeyIndex(v, doc.required[i]) # 0
         /\ doc.additionalProperties = FALSE =>
                \A i \in 1..Len(v.keys) : KeyIndex(doc.properties, v.keys[i]) # 0
         /\ \A i \in 1..Len(doc.properties.keys) :
                LET at == KeyIndex(v, doc.properties.keys[i])
                IN at # 0 => Conforms(v.vals[at], doc.properties.vals[i])
    ELSE IF doc.type = "array"
    THEN IsList(v) /\ \A i \in 1..Len(v.items) : Conforms(v.items[i], doc.items)
    ELSE IF doc.type = "string" THEN v.py = "str"
    ELSE IF doc.type = "integer"
    THEN v.py = "int" \/ (v.py = "float" /\ v.tenths % 10 = 0)
    ELSE IF doc.type = "number" THEN v.py \in {"int", "float"}
    ELSE IF doc.type = "boolean" THEN v.py = "bool"
    ELSE IF doc.type = "null" THEN v = None
    ELSE FALSE

\* C12: compiler and validator agree: for every SchemaSpec produced by
\* make_schema_spec and every JSON value V, if validate_with_schema_dict(V,
\* spec.schema_dict) returns without raising then V conforms to spec.json_schema:
\* every required key present at every object level, no undeclared key, every leaf
\* of its compiled type or enum.
C12_ValidatorWithinDocument ==
    (Compiled /\ Validated /\ ~outcome.raised) =>
        Conforms(value, spec.value.json_schema)

====
